---- MODULE Spec2Model ----
(***************************************************************************)
(* Model of the omgpp server session layer (crates/server/src/lib.rs):     *)
(* the connection registry active_connetions (a bimap::BiHashMap), the     *)
(* callback slots, one process::<N> cycle (lifecycle events first, then    *)
(* inbound messages), and the send / broadcast path, together with the     *)
(* part of the transport (GameNetworkingSockets behind the gns crate) the  *)
(* server observes: connection handles, their states, the posted status    *)
(* callbacks, the socket's event queue and the inbound message queue.      *)
(***************************************************************************)
EXTENDS Integers, Sequences, FiniteSets, TLC

VARIABLES
    active_connetions,  \* Server.active_connetions: set of <<uuid, connection>> pairs
    callbacks,          \* Server.callbacks: the three callback slots
    conns,              \* transport: per handle, its state and remote endpoint
    nextConn,           \* transport: the next handle it will issue
    posted,             \* transport: status changes posted, not yet run by poll_callbacks
    evq,                \* socket: queue of GnsConnectionEvent filled by poll_callbacks
    msgq,               \* transport: inbound messages not yet polled
    pc,                 \* position inside process: "idle", "events", "messages"
    polled,             \* items the running poll_event / poll_messages has handed out
    socket_op_result,   \* the local socket_op_result of process
    ret,                \* what the public operation just performed returned
    cbLog,              \* its callback invocations, in order
    txLog,              \* its transport instructions, in order
    last,               \* the item handled last (an event, a message, a send), and the state before it
    handled,            \* the events and messages the running process call has handled, in order
    atPoll,             \* the event queue and the message queue the running process call began with
    nEnv                \* steps taken so far by the peers and by the registering host

vars == <<active_connetions, callbacks, conns, nextConn, posted, evq, msgq, pc,
          polled, socket_op_result, ret, cbLog, txLog, last, handled, atPoll, nEnv>>

(***************************************************************************)
(* Bounds                                                                  *)
(***************************************************************************)
NumConns == 2       \* handles the transport issues
N == 2              \* the generic parameter of process::<N>
MaxEnv == 4         \* peer steps (connect, close, message) and register_on_* calls in one behaviour

Conns == 1..NumConns

(***************************************************************************)
(* Values                                                                  *)
(***************************************************************************)
\* ESteamNetworkingConnectionState, as far as the listen socket reports it
StateNone == "None"
StateConnecting == "Connecting"
StateConnected == "Connected"
StateClosedByPeer == "ClosedByPeer"
StateProblemDetectedLocally == "ProblemDetectedLocally"
ClosedStates == {StateClosedByPeer, StateProblemDetectedLocally}
\* all the values of the enumeration
TransportStates == {StateNone, StateConnecting, "FindingRoute", StateConnected, StateClosedByPeer,
                    StateProblemDetectedLocally, "FinWait", "Linger", "Dead"}
LiveStates == {StateConnecting, StateConnected}

\* remote endpoints a peer can connect from: two handles can have the same one
FirstEndpoint == [addr |-> "203.0.113.5", port |-> 4000]
Endpoints == {FirstEndpoint, [addr |-> "203.0.113.9", port |-> 4000]}
NoInfo == [addr |-> "", port |-> 0]

\* payloads peers send, and the payload the host sends
Payloads == {<<104, 105>>, <<>>}
OutPayloads == {<<104, 101, 108, 108, 111>>}

\* send flags (gns_sys)
k_nSteamNetworkingSend_Unreliable == "Unreliable"
k_nSteamNetworkingSend_Reliable == "Reliable"

\* ServerResult
Ok == [ok |-> TRUE, err |-> ""]
Err(s) == [ok |-> FALSE, err |-> s]

\* handlers user code can register, by name
Handlers == {"A", "B"}
NoHandler == "None"
DefaultPolicy == "default"

(***************************************************************************)
(* Identity: generate_uuid                                                 *)
(***************************************************************************)
\* format!("{}:{}", remote_address, remote_port)
hash_str(info) == <<info.addr, ":", info.port>>

\* md5::compute: a fixed function of the string; distinct strings of the
\* model have distinct digests
md5_compute(s) == [md5 |-> s]

generate_uuid(info) == md5_compute(hash_str(info))

Uuids == {generate_uuid(e) : e \in Endpoints}

\* what each registrable connect-request policy answers: the default
\* closure |_id| true, a handler A that rejects, a handler B that accepts
PolicyAnswer(handler, uuid) ==
    CASE handler = DefaultPolicy -> TRUE
      [] handler = "A" -> FALSE
      [] OTHER -> TRUE

(***************************************************************************)
(* bimap::BiHashMap<Uuid, GnsConnection>                                   *)
(***************************************************************************)
Lefts(m) == {p[1] : p \in m}
Rights(m) == {p[2] : p \in m}
contains_left(m, l) == l \in Lefts(m)
contains_right(m, r) == r \in Rights(m)
\* Option: a set with at most the one value
get_by_left(m, l) == {p[2] : p \in {q \in m : q[1] = l}}
get_by_right(m, r) == {p[1] : p \in {q \in m : q[2] = r}}
remove_by_left(m, l) == {p \in m : p[1] # l}

\* insert: any pair holding the left or the right value is removed first
insert_keep_old(m, l, r) == m \cup {<<l, r>>}
insert(m, l, r) == {p \in m : p[1] # l /\ p[2] # r} \cup {<<l, r>>}

(***************************************************************************)
(* Ghost records                                                           *)
(***************************************************************************)
\* one callback invocation: slot, handler in the slot, arguments; item is the
\* handle of the event or message being handled
CbCall(slot, handler, uuid, arg, tag, item) ==
    [cb |-> slot, h |-> handler, id |-> uuid, arg |-> arg, tag |-> tag, conn |-> item]

\* one transport instruction: accept / close_connection of a handle, or one
\* send_messages call with its batch of outbound units
TxAccept(c, ok) == [op |-> "accept", conn |-> c, units |-> <<>>, ok |-> ok]
TxClose(c, reason, debug, linger) ==
    [op |-> "close", conn |-> c, units |-> <<[reason |-> reason, debug |-> debug, linger |-> linger]>>, ok |-> TRUE]
TxSend(units, ok) == [op |-> "send_messages", conn |-> 0, units |-> units, ok |-> ok]

\* an item and the state it was handled in: the registry and the callback
\* slots before it, the lengths of the two logs before it, and its result
Item(kind, c, uuid, old, new, data, flags, res) ==
    [kind |-> kind, conn |-> c, id |-> uuid, old |-> old, new |-> new, data |-> data,
     flags |-> flags, reg |-> active_connetions, cbs |-> callbacks,
     cbLen |-> Len(cbLog), txLen |-> Len(txLog), res |-> res]
NoUuid == generate_uuid(NoInfo)
NoItem == [kind |-> "none", conn |-> 0, id |-> NoUuid, old |-> "", new |-> "", data |-> <<>>,
           flags |-> "", reg |-> {}, cbs |-> <<>>, cbLen |-> 0, txLen |-> 0, res |-> [ok |-> TRUE, err |-> ""]]
NoPoll == [events |-> <<>>, messages |-> <<>>]
NoRet == [ok |-> TRUE, err |-> "-"]

(***************************************************************************)
(* Server::new                                                             *)
(***************************************************************************)
NewCallbacks ==
    [on_connect_requested_callback |-> DefaultPolicy,
     on_connection_changed_callback |-> NoHandler,
     on_message_callback |-> NoHandler]

Init ==
    /\ active_connetions = {}
    /\ callbacks = NewCallbacks
    /\ conns = [c \in Conns |-> [state |-> StateNone, info |-> NoInfo]]
    /\ nextConn = 1
    /\ posted = <<>>
    /\ evq = <<>>
    /\ msgq = <<>>
    /\ pc = "idle"
    /\ polled = 0
    /\ socket_op_result = Ok
    /\ ret = Ok
    /\ cbLog = <<>>
    /\ txLog = <<>>
    /\ last = NoItem
    /\ handled = <<>>
    /\ atPoll = NoPoll
    /\ nEnv = 0

(***************************************************************************)
(* The transport, between two calls of the server                          *)
(***************************************************************************)
Event(c, old, new, info) == [conn |-> c, old |-> old, new |-> new, info |-> info]

serverVars == <<active_connetions, callbacks, pc, polled, socket_op_result>>

\* the record of the operation just performed ends when the transport moves on
Forget ==
    /\ nEnv < MaxEnv
    /\ nEnv' = nEnv + 1
    /\ ret' = NoRet
    /\ cbLog' = <<>>
    /\ txLog' = <<>>
    /\ last' = NoItem
    /\ handled' = <<>>
    /\ atPoll' = NoPoll

\* a peer opens a connection: a fresh handle, None -> Connecting
\* (the endpoints are interchangeable: the first peer is taken to use the first)
PeerConnects(e) ==
    /\ pc = "idle"
    /\ nextConn \in Conns
    /\ nextConn = 1 => e = FirstEndpoint
    /\ conns' = [conns EXCEPT ![nextConn] = [state |-> StateConnecting, info |-> e]]
    /\ posted' = Append(posted, Event(nextConn, StateNone, StateConnecting, e))
    /\ nextConn' = nextConn + 1
    /\ Forget
    /\ UNCHANGED <<serverVars, evq, msgq>>

\* a live connection ends: closed by the peer, or a problem detected locally
PeerCloses(c, new) ==
    /\ pc = "idle"
    /\ conns[c].state \in LiveStates
    /\ conns' = [conns EXCEPT ![c].state = new]
    /\ posted' = Append(posted, Event(c, conns[c].state, new, conns[c].info))
    /\ Forget
    /\ UNCHANGED <<serverVars, nextConn, evq, msgq>>

\* a message arrives on a connected connection
PeerSends(c, data) ==
    /\ pc = "idle"
    /\ conns[c].state = StateConnected
    /\ msgq' = Append(msgq, [conn |-> c, payload |-> data])
    /\ Forget
    /\ UNCHANGED <<serverVars, conns, nextConn, posted, evq>>

(***************************************************************************)
(* register_on_*                                                           *)
(***************************************************************************)
\* the slots after a registration: the new handler replaces the one in its slot
registered_first_wins(cbs, slot, handler) ==
    IF cbs[slot] \in Handlers THEN cbs ELSE [cbs EXCEPT ![slot] = handler]
registered(cbs, slot, handler) == [cbs EXCEPT ![slot] = handler]

Register(slot, handler) ==
    /\ pc = "idle"
    /\ nEnv < MaxEnv
    /\ nEnv' = nEnv + 1
    /\ callbacks' = registered(callbacks, slot, handler)
    /\ ret' = Ok
    /\ cbLog' = <<>>
    /\ txLog' = <<>>
    /\ last' = Item("register", 0, NoUuid, slot, handler, <<>>, "", Ok)
    /\ handled' = <<>>
    /\ atPoll' = NoPoll
    /\ UNCHANGED <<active_connetions, conns, nextConn, posted, evq, msgq, pc, polled,
                   socket_op_result>>

register_on_connect_requested(handler) == Register("on_connect_requested_callback", handler)
register_on_connection_state_changed(handler) == Register("on_connection_changed_callback", handler)
register_on_message(handler) == Register("on_message_callback", handler)

(***************************************************************************)
(* process_connection_events                                               *)
(***************************************************************************)
\* the arm of the match on (event.old_state(), event.info().state())
match_arm_none_disconnects(old, new) ==
    CASE old = StateNone /\ new = StateConnecting -> "connect_request"
      [] old \in {StateConnecting, StateConnected} /\ new \in ClosedStates \cup {StateNone} -> "disconnected"
      [] old = StateConnecting /\ new = StateConnected -> "connected"
      [] OTHER -> "ignored"
match_arm(old, new) ==
    CASE old = StateNone /\ new = StateConnecting -> "connect_request"
      [] old \in {StateConnecting, StateConnected} /\ new \in ClosedStates -> "disconnected"
      [] old = StateConnecting /\ new = StateConnected -> "connected"
      [] OTHER -> "ignored"

\* the registry after the arm has run
registry_after_keeps_closed(m, arm, player_uuid, connection) ==
    IF arm = "connected" THEN insert(m, player_uuid, connection) ELSE m
registry_after(m, arm, player_uuid, connection) ==
    CASE arm = "disconnected" ->
            IF contains_left(m, player_uuid) THEN remove_by_left(m, player_uuid) ELSE m
      [] arm = "connected" -> insert(m, player_uuid, connection)
      [] OTHER -> m

\* the arm's call of on_connection_changed_callback, if the slot is set
changed_call(cbs, state, player_uuid, connection) ==
    IF cbs.on_connection_changed_callback = NoHandler THEN <<>>
    ELSE <<CbCall("changed", cbs.on_connection_changed_callback, player_uuid, state, 0, connection)>>

\* the connect-request policy is asked after the Connecting notification
policy_call(cbs, player_uuid, connection) ==
    <<CbCall("policy", cbs.on_connect_requested_callback, player_uuid,
             PolicyAnswer(cbs.on_connect_requested_callback, player_uuid), 0, connection)>>

connect_request_calls_no_notify(cbs, player_uuid, connection) ==
    policy_call(cbs, player_uuid, connection)
connect_request_calls_policy_first(cbs, player_uuid, connection) ==
    policy_call(cbs, player_uuid, connection) \o changed_call(cbs, "Connecting", player_uuid, connection)
connect_request_calls(cbs, player_uuid, connection) ==
    changed_call(cbs, "Connecting", player_uuid, connection) \o policy_call(cbs, player_uuid, connection)

\* the transport instruction of the connect_request arm
connect_instruction_always_accept(should_accept) == "accept"
connect_instruction(should_accept) == IF should_accept THEN "accept" ELSE "close"

\* close_connection destroys the handle; the transport posts the status change
\* of a connection the host destroys like any other (old state -> None)

\* socket.accept: refused when the connection is no longer Connecting, and
\* whenever the transport says so
AcceptOutcomes(c) == IF conns[c].state = StateConnecting THEN BOOLEAN ELSE {FALSE}

accept_result(ok) == IF ok THEN Ok ELSE Err("Cannot accept the connection")

process_connection_events(event) ==
    LET player_uuid == generate_uuid(event.info)
        c == event.conn
        arm == match_arm(event.old, event.new)
        should_accept == PolicyAnswer(callbacks.on_connect_requested_callback, player_uuid)
        item(res) == Item("event", c, player_uuid, event.old, event.new, <<>>, "", res)
    IN  /\ active_connetions' = registry_after(active_connetions, arm, player_uuid, c)
        /\ CASE arm = "connect_request" ->
                  /\ cbLog' = cbLog \o connect_request_calls(callbacks, player_uuid, c)
                  /\ IF connect_instruction(should_accept) = "accept"
                     THEN \E ok \in AcceptOutcomes(c) :
                            /\ txLog' = Append(txLog, TxAccept(c, ok))
                            /\ conns' = IF ok THEN [conns EXCEPT ![c].state = StateConnected] ELSE conns
                            /\ posted' = IF ok
                                         THEN Append(posted, Event(c, StateConnecting, StateConnected, event.info))
                                         ELSE posted
                            /\ socket_op_result' = accept_result(ok)
                            /\ last' = item(accept_result(ok))
                            /\ handled' = Append(handled, item(accept_result(ok)))
                     ELSE /\ txLog' = Append(txLog, TxClose(c, 0, "You are not allowed to connect", FALSE))
                          /\ conns' = [conns EXCEPT ![c].state = StateNone]
                          /\ posted' = Append(posted, Event(c, conns[c].state, StateNone, event.info))
                          /\ socket_op_result' = Ok
                          /\ last' = item(Ok)
                          /\ handled' = Append(handled, item(Ok))
             [] arm = "disconnected" ->
                  /\ cbLog' = cbLog \o changed_call(callbacks, "Disconnected", player_uuid, c)
                  /\ socket_op_result' = Ok
                  /\ last' = item(Ok)
                  /\ handled' = Append(handled, item(Ok))
                  /\ UNCHANGED <<txLog, conns, posted>>
             [] arm = "connected" ->
                  /\ cbLog' = cbLog \o changed_call(callbacks, "Connected", player_uuid, c)
                  /\ socket_op_result' = Ok
                  /\ last' = item(Ok)
                  /\ handled' = Append(handled, item(Ok))
                  /\ UNCHANGED <<txLog, conns, posted>>
             [] OTHER ->
                  /\ socket_op_result' = Ok
                  /\ last' = item(Ok)
                  /\ handled' = Append(handled, item(Ok))
                  /\ UNCHANGED <<cbLog, txLog, conns, posted>>

(***************************************************************************)
(* process_messages                                                        *)
(***************************************************************************)
\* the result of the lookup of the sender, and of the item
message_result(sender) == IF sender = {} THEN Err("Unknown connection") ELSE Ok

\* the call of on_message_callback: none when the sender is unknown or the
\* slot is empty
message_calls_tag1(cbs, sender, data, connection) ==
    IF sender = {} \/ cbs.on_message_callback = NoHandler THEN <<>>
    ELSE <<CbCall("message", cbs.on_message_callback, CHOOSE u \in sender : TRUE, data, 1, connection)>>
message_calls(cbs, sender, data, connection) ==
    IF sender = {} \/ cbs.on_message_callback = NoHandler THEN <<>>
    ELSE <<CbCall("message", cbs.on_message_callback, CHOOSE u \in sender : TRUE, data, 0, connection)>>

\* process_messages only reads the registry
registry_after_message_learns(m, sender, connection) ==
    IF sender = {} THEN insert(m, NoUuid, connection) ELSE m
registry_after_message(m, sender, connection) == m

process_messages(msg) ==
    LET data == msg.payload
        connection == msg.conn
        sender == get_by_right(active_connetions, connection)
        res == message_result(sender)
        item == Item("message", connection, IF sender = {} THEN NoUuid ELSE CHOOSE u \in sender : TRUE,
                     "", "", data, "", res)
    IN  /\ cbLog' = cbLog \o message_calls(callbacks, sender, data, connection)
        /\ socket_op_result' = res
        /\ last' = item
        /\ handled' = Append(handled, item)
        /\ active_connetions' = registry_after_message(active_connetions, sender, connection)
        /\ UNCHANGED <<txLog, conns, posted>>

(***************************************************************************)
(* process::<N>                                                            *)
(***************************************************************************)
\* the order of the steps of process: poll_callbacks, poll_event, poll_messages, return
next_phase_messages_first(phase) ==
    CASE phase = "poll" -> "messages"
      [] phase = "messages" -> "events"
      [] OTHER -> "return"
next_phase(phase) ==
    CASE phase = "poll" -> "events"
      [] phase = "events" -> "messages"
      [] OTHER -> "return"

\* a poll stops when its queue is empty or it has handed out N items; the
\* result of an item does not stop it
poll_done_on_error(queue, count, result) == queue = <<>> \/ count = N \/ ~result.ok
poll_done_unbounded(queue, count, result) == queue = <<>>
poll_done(queue, count, result) == queue = <<>> \/ count = N

\* poll_callbacks: the posted status changes become events of the socket
ProcessBegin ==
    /\ pc = "idle"
    /\ pc' = next_phase("poll")
    /\ evq' = evq \o posted
    /\ posted' = <<>>
    /\ polled' = 0
    /\ socket_op_result' = Ok
    /\ ret' = NoRet
    /\ cbLog' = <<>>
    /\ txLog' = <<>>
    /\ last' = NoItem
    /\ handled' = <<>>
    /\ atPoll' = [events |-> evq \o posted, messages |-> msgq]
    /\ UNCHANGED <<active_connetions, callbacks, conns, nextConn, msgq, nEnv>>

\* poll_event::<N>: one event handed to the closure
ProcessEvent ==
    /\ pc = "events"
    /\ ~poll_done(evq, polled, socket_op_result)
    /\ evq' = Tail(evq)
    /\ polled' = polled + 1
    /\ process_connection_events(Head(evq))
    /\ UNCHANGED <<callbacks, nextConn, msgq, pc, ret, atPoll, nEnv>>

\* poll_messages::<N>: one message handed to the closure
ProcessMessage ==
    /\ pc = "messages"
    /\ ~poll_done(msgq, polled, socket_op_result)
    /\ msgq' = Tail(msgq)
    /\ polled' = polled + 1
    /\ process_messages(Head(msgq))
    /\ UNCHANGED <<callbacks, nextConn, evq, pc, ret, atPoll, nEnv>>

\* a poll returns (its queue is empty or N items were handled): process goes
\* on to its next step, and in the end returns socket_op_result
PollDone(phase, queue) ==
    /\ pc = phase
    /\ poll_done(queue, polled, socket_op_result)
    /\ pc' = IF next_phase(phase) = "return" THEN "idle" ELSE next_phase(phase)
    /\ ret' = IF next_phase(phase) = "return" THEN socket_op_result ELSE ret
    /\ polled' = 0
    /\ socket_op_result' = IF next_phase(phase) = "return" THEN Ok ELSE socket_op_result
    /\ UNCHANGED <<active_connetions, callbacks, conns, nextConn, posted, evq, msgq,
                   cbLog, txLog, last, handled, atPoll, nEnv>>

EventsDone == PollDone("events", evq)
MessagesDone == PollDone("messages", msgq)

(***************************************************************************)
(* send, send_reliable, broadcast, broadcast_reliable                      *)
(***************************************************************************)
\* allocate_message(connection, flags, data)
allocate_message(connection, flags, data) == [conn |-> connection, flags |-> flags, payload |-> data]

\* res.get(0).unwrap().is_right() means the transport failed the unit
send_result_ignored(ok) == Ok
send_result(ok) ==
    IF ok THEN Ok ELSE Err("Some error occured when sending the message")

opVars == <<active_connetions, callbacks, conns, nextConn, posted, evq, msgq, pc, polled,
            socket_op_result, nEnv>>

send_with_flags(connection, flags, data) ==
    \E ok \in BOOLEAN :
        /\ txLog' = <<TxSend(<<allocate_message(connection, flags, data)>>, ok)>>
        /\ ret' = send_result(ok)

\* the units submitted for a recipient that is not in the registry
unknown_recipient_units_sent(player, flags, data) == <<TxSend(<<allocate_message(0, flags, data)>>, FALSE)>>
unknown_recipient_units(player, flags, data) == <<>>

SendTo(op, player, flags, data) ==
    /\ pc = "idle"
    /\ cbLog' = <<>>
    /\ last' = [Item(op, 0, player, "", "", data, flags, Ok) EXCEPT !.cbLen = 0, !.txLen = 0]
    /\ handled' = <<>>
    /\ atPoll' = NoPoll
    /\ LET connection == get_by_left(active_connetions, player)
       IN  IF connection = {}
           THEN /\ ret' = Err("There is not such player to send")
                /\ txLog' = unknown_recipient_units(player, flags, data)
           ELSE send_with_flags(CHOOSE c \in connection : TRUE, flags, data)
    /\ UNCHANGED opVars

send(player, data) == SendTo("send", player, k_nSteamNetworkingSend_Unreliable, data)
send_reliable(player, data) == SendTo("send_reliable", player, k_nSteamNetworkingSend_Reliable, data)

\* the orders in which the registry can be iterated
Orders(m) == {s \in [1..Cardinality(m) -> m] : \A i, j \in 1..Cardinality(m) : s[i] = s[j] => i = j}

\* the collected units go to the transport in one send_messages call, and
\* in none when there are no units
submit_batch_one_by_one(connections) ==
    [i \in 1..Len(connections) |-> TxSend(<<connections[i]>>, TRUE)]
submit_batch(connections) ==
    IF Len(connections) > 0 THEN <<TxSend(connections, TRUE)>> ELSE <<>>

broadcast_with_flags(op, flags, data) ==
    /\ pc = "idle"
    /\ cbLog' = <<>>
    /\ last' = [Item(op, 0, NoUuid, "", "", data, flags, Ok) EXCEPT !.cbLen = 0, !.txLen = 0]
    /\ handled' = <<>>
    /\ atPoll' = NoPoll
    /\ ret' = Ok
    /\ \E order \in Orders(active_connetions) :
          LET connections == [i \in 1..Len(order) |-> allocate_message(order[i][2], flags, data)]
          IN  txLog' = submit_batch(connections)
    /\ UNCHANGED opVars

broadcast(data) == broadcast_with_flags("broadcast", k_nSteamNetworkingSend_Unreliable, data)
broadcast_reliable(data) == broadcast_with_flags("broadcast_reliable", k_nSteamNetworkingSend_Reliable, data)

(***************************************************************************)
(* Specification                                                           *)
(***************************************************************************)
Next ==
    \/ \E e \in Endpoints : PeerConnects(e)
    \/ \E c \in Conns, new \in ClosedStates : PeerCloses(c, new)
    \/ \E c \in Conns, data \in Payloads : PeerSends(c, data)
    \/ \E h \in Handlers : register_on_connect_requested(h)
    \/ \E h \in Handlers : register_on_connection_state_changed(h)
    \/ \E h \in Handlers : register_on_message(h)
    \/ ProcessBegin
    \/ ProcessEvent
    \/ EventsDone
    \/ ProcessMessage
    \/ MessagesDone
    \/ \E p \in Uuids, data \in OutPayloads : send(p, data)
    \/ \E p \in Uuids, data \in OutPayloads : send_reliable(p, data)
    \/ \E data \in OutPayloads : broadcast(data)
    \/ \E data \in OutPayloads : broadcast_reliable(data)

Spec == Init /\ [][Next]_vars

(***************************************************************************)
(* The same server on a transport that can deliver a status change twice:  *)
(* the closure of poll_event gets the event it has just handled once more  *)
(***************************************************************************)
SameEvent(a, b) ==
    /\ a.kind = "event" /\ b.kind = "event"
    /\ a.conn = b.conn /\ a.old = b.old /\ a.new = b.new

\* the item handled last is the second delivery of an event
IsReplay == Len(handled) >= 2 /\ SameEvent(handled[Len(handled) - 1], handled[Len(handled)])

Redeliver ==
    /\ pc = "events"
    /\ last.kind = "event"
    /\ ~IsReplay
    /\ process_connection_events(Event(last.conn, last.old, last.new, conns[last.conn].info))
    /\ UNCHANGED <<callbacks, nextConn, evq, msgq, pc, polled, ret, atPoll, nEnv>>

NextReplay == Next \/ Redeliver

SpecReplay == Init /\ [][NextReplay]_vars

(***************************************************************************)
(* Properties                                                              *)
(***************************************************************************)
\* the transition table of the lifecycle state machine, by (old, new) pair
ArmOf(item) ==
    IF item.old = "None" /\ item.new = "Connecting" THEN "connect_request"
    ELSE IF item.old = "Connecting" /\ item.new = "Connected" THEN "connected"
    ELSE IF item.old \in {"Connecting", "Connected"}
            /\ item.new \in {"ClosedByPeer", "ProblemDetectedLocally"} THEN "disconnected"
    ELSE "ignored"
\* the callback invocations and the transport instructions an item added
CallsOf(item) == SubSeq(cbLog, item.cbLen + 1, Len(cbLog))
InstructionsOf(item) == SubSeq(txLog, item.txLen + 1, Len(txLog))
Indices(log) == 1..Len(log)
Count(log, Test(_)) == Cardinality({i \in Indices(log) : Test(log[i])})
\* the transport has run all its status changes through the server
Quiescent == pc = "idle" /\ posted = <<>> /\ evq = <<>>
\* the operation just performed is a send, a broadcast
IsSend(item) == item.kind \in {"send", "send_reliable"}
IsBroadcast(item) == item.kind \in {"broadcast", "broadcast_reliable"}
\* the reliability class of each public operation
FlagsOf(op) ==
    IF op \in {"send_reliable", "broadcast_reliable"}
    THEN k_nSteamNetworkingSend_Reliable ELSE k_nSteamNetworkingSend_Unreliable

\* C1: the registry is a bijection: no identifier and no handle is in two entries
RegistryIsBijection ==
    \A p, q \in active_connetions : (p[1] = q[1] \/ p[2] = q[2]) => p = q

\* C1 witness: a Connected event was handled for an identifier that another
\* handle already held, next to sends and broadcasts
RegistryIsBijectionWitness ==
    /\ last.kind = "event"
    /\ ArmOf(last) = "connected"
    /\ contains_left(last.reg, last.id)
    /\ ~contains_right(last.reg, last.conn)
    /\ contains_right(active_connetions, last.conn)

\* C2: between cycles, with every status change of the transport handled, a
\* handle has a registry entry if and only if the transport has it Connected
EntryIffConnected ==
    Quiescent => \A c \in Conns : contains_right(active_connetions, c) <=> conns[c].state = StateConnected

\* C3: a Connected event whose identifier or handle is already in the registry
\* changes nothing: the insert fails and the entries are kept
InsertNeverOverwrites ==
    (/\ last.kind = "event"
     /\ ArmOf(last) = "connected"
     /\ (contains_left(last.reg, last.id) \/ contains_right(last.reg, last.conn)))
    => active_connetions = last.reg

\* the events, and the messages, among the items handled so far
IsEvent(item) == item.kind = "event"
IsMessage(item) == item.kind = "message"
IsUnknownMessage(item) == item.kind = "message" /\ ~contains_right(item.reg, item.conn)
\* the transport instructions of one kind given for a handle so far
Instructions(op, c) == Cardinality({i \in Indices(txLog) : txLog[i].op = op /\ txLog[i].conn = c})
\* process has just returned
Returned == pc = "idle" /\ handled # <<>>

\* handled[i] made the handle of the message m Connected, and no later event
\* handled took the entry away again
ConnectedBy(i, m) ==
    /\ IsEvent(handled[i])
    /\ ArmOf(handled[i]) = "connected"
    /\ handled[i].conn = m.conn
StillThere(i) ==
    \A j \in Indices(handled) :
        (j > i /\ IsEvent(handled[j])) =>
            /\ ~(ArmOf(handled[j]) = "disconnected" /\ handled[j].id = handled[i].id)
            /\ ~(ArmOf(handled[j]) = "connected" /\ handled[j].id = handled[i].id)

\* C4 as claimed: all events of a call are handled before its messages, and a
\* message whose handle an event of the same call made Connected finds that
\* handle in the registry
MessageFindsSameCycleConnect ==
    /\ \A i, j \in Indices(handled) : (i < j /\ IsMessage(handled[i])) => IsMessage(handled[j])
    /\ last.kind = "message" =>
          \A i \in Indices(handled) : ConnectedBy(i, last) => contains_right(last.reg, last.conn)

\* C4 amended: all events of a call are handled before any of its messages
\* (when a message is dispatched the event poll is over), and a message whose
\* handle an event of the same call made Connected finds the handle in the
\* registry, under the identifier of that event, unless a later event of the
\* call took the entry away again (a closing event, or a Connected event, for
\* the same identifier)
EventsBeforeMessages ==
    /\ \A i, j \in Indices(handled) : (i < j /\ IsMessage(handled[i])) => IsMessage(handled[j])
    /\ (\E i \in Indices(handled) : IsMessage(handled[i])) =>
          (evq = <<>> \/ Count(handled, IsEvent) = N)
    /\ last.kind = "message" =>
          \A i \in Indices(handled) :
              (ConnectedBy(i, last) /\ StillThere(i)) =>
                  get_by_right(last.reg, last.conn) = {handled[i].id}

\* C4 witness: a message is dispatched for a handle that an event of the same
\* call made Connected, and the registry holds the handle
EventsBeforeMessagesWitness ==
    /\ last.kind = "message"
    /\ \E i \in Indices(handled) : ConnectedBy(i, last) /\ StillThere(i)
    /\ contains_right(last.reg, last.conn)
    /\ Len(cbLog) > last.cbLen

\* the connect requests the policy has refused in this call
Refused(call) == call.cb = "policy" /\ call.arg = FALSE

\* C5 as claimed: after a cycle in which the policy refused a connect request
\* of identifier X, the registry has no entry for X, and the transport got
\* exactly one close and no accept for the handle
RejectLeavesNoEntryForId ==
    pc = "idle" =>
        \A i \in Indices(cbLog) :
            Refused(cbLog[i]) =>
                /\ ~contains_left(active_connetions, cbLog[i].id)
                /\ Instructions("close", cbLog[i].conn) = 1
                /\ Instructions("accept", cbLog[i].conn) = 0

\* C5 amended: a refused connect request leaves the registry as it was, and
\* after the cycle the registry has no entry for the handle of the event (an
\* entry for X is one another handle put there); the transport got exactly one
\* close and no accept for the handle
RejectLeavesNoEntryForHandle ==
    /\ (last.kind = "event" /\ ArmOf(last) = "connect_request") => active_connetions = last.reg
    /\ \A i \in Indices(cbLog) :
            Refused(cbLog[i]) =>
                /\ ~contains_right(active_connetions, cbLog[i].conn)
                /\ Instructions("close", cbLog[i].conn) = 1
                /\ Instructions("accept", cbLog[i].conn) = 0

\* C5 witness: the cycle is over, the policy refused a handle, the transport
\* was told to close it, and the identifier is still registered for another handle
RejectLeavesNoEntryForHandleWitness ==
    /\ pc = "idle"
    /\ \E i \in Indices(cbLog) :
          /\ Refused(cbLog[i])
          /\ contains_left(active_connetions, cbLog[i].id)
          /\ Instructions("close", cbLog[i].conn) = 1

\* the calls of the message handler among the callback invocations
IsMessageCall(call) == call.cb = "message"
IsKnownMessage(item) == item.kind = "message" /\ contains_right(item.reg, item.conn)
UnknownRecipient == Err("There is not such player to send")

\* C6: a message for a handle without registry entry invokes no callback and
\* leaves the registry as it was, and the cycle goes on: when process returns,
\* each poll has emptied its queue or handled its N items
UnknownMessageIsSkipped ==
    /\ (last.kind = "message" /\ get_by_right(last.reg, last.conn) = {}) =>
          /\ Len(cbLog) = last.cbLen
          /\ active_connetions = last.reg
    /\ \A i \in Indices(handled) :
          IsUnknownMessage(handled[i]) =>
              /\ \A k \in Indices(cbLog) : IsMessageCall(cbLog[k]) => cbLog[k].conn # handled[i].conn
              /\ Returned =>
                    /\ (evq = <<>> \/ Count(handled, IsEvent) = N)
                    /\ (msgq = <<>> \/ Count(handled, IsMessage) = N)

\* C6 witness: process has returned after a message without registry entry
\* that was followed by another message of the same cycle
UnknownMessageIsSkippedWitness ==
    /\ Returned
    /\ \E i, j \in Indices(handled) : i < j /\ IsUnknownMessage(handled[i]) /\ IsMessage(handled[j])

\* C7: a process call whose only anomaly is messages for handles without
\* registry entry returns success
UnknownMessageReturnsOk ==
    (/\ Returned
     /\ \E i \in Indices(handled) : IsUnknownMessage(handled[i])
     /\ \A i \in Indices(handled) : ~handled[i].res.ok => IsUnknownMessage(handled[i]))
    => ret.ok

\* C8: a process call in which the transport refused an accept returns an
\* error, whatever was handled after it
RefusedAcceptReturnsErr ==
    (/\ Returned
     /\ \E i \in Indices(handled) : IsEvent(handled[i]) /\ ~handled[i].res.ok)
    => ~ret.ok

\* C9: with a message handler registered, a message whose handle has a
\* registry entry invokes the handler exactly once, with the identifier of that
\* entry, type tag 0 and the received bytes; the handler is invoked for no
\* other message, so never more than once per message
KnownMessageIsDeliveredOnce ==
    /\ (last.kind = "message" /\ contains_right(last.reg, last.conn)
            /\ callbacks.on_message_callback # NoHandler) =>
          /\ Len(cbLog) = last.cbLen + 1
          /\ \A u \in get_by_right(last.reg, last.conn) :
                cbLog[Len(cbLog)] =
                    CbCall("message", callbacks.on_message_callback, u, last.data, 0, last.conn)
    /\ callbacks.on_message_callback # NoHandler =>
          Count(cbLog, IsMessageCall) = Count(handled, IsKnownMessage)
    /\ Count(cbLog, IsMessageCall) <= Count(handled, IsMessage)

\* C9 witness: the registered handler has been invoked for a message with
\* payload, from a handle the registry holds
KnownMessageIsDeliveredOnceWitness ==
    /\ last.kind = "message"
    /\ contains_right(last.reg, last.conn)
    /\ last.data # <<>>
    /\ callbacks.on_message_callback # NoHandler
    /\ Len(cbLog) = last.cbLen + 1

\* C10: send and send_reliable to an identifier without registry entry return
\* the unknown-recipient error, submit nothing, and leave the registry and the
\* callback slots as they were; a closing event for X leaves no entry for X,
\* so that send(X) fails from then on, until a Connected event for X
UnknownRecipientFails ==
    /\ (IsSend(last) /\ ~contains_left(last.reg, last.id)) =>
          /\ ret = UnknownRecipient
          /\ txLog = <<>>
          /\ cbLog = <<>>
          /\ active_connetions = last.reg
          /\ callbacks = last.cbs
    /\ (IsSend(last) /\ ret = UnknownRecipient) => ~contains_left(last.reg, last.id)
    /\ (last.kind = "event" /\ ArmOf(last) = "disconnected") =>
          ~contains_left(active_connetions, last.id)

\* C10 witness: a send has failed for the identifier of a connection that was
\* Connected and registered, and whose closing event has been handled
UnknownRecipientFailsWitness ==
    /\ IsSend(last)
    /\ ret = UnknownRecipient
    /\ Quiescent
    /\ \E c \in Conns :
          /\ conns[c].state \in ClosedStates
          /\ generate_uuid(conns[c].info) = last.id
          /\ \A d \in Conns : conns[d].state # StateConnected

\* C11: send and send_reliable to an identifier X of the registry submit
\* exactly one outbound unit, to the handle the registry maps X to, unreliable
\* for send and reliable for send_reliable, and return an error if and only if
\* the transport reports a failure for that unit
KnownRecipientGetsOneUnit ==
    (IsSend(last) /\ contains_left(last.reg, last.id)) =>
        /\ Len(txLog) = 1
        /\ txLog[1].op = "send_messages"
        /\ \A c \in get_by_left(last.reg, last.id) :
              txLog[1].units = <<[conn |-> c, flags |-> FlagsOf(last.kind), payload |-> last.data]>>
        /\ ret.ok <=> txLog[1].ok
        /\ ~ret.ok => ret = Err("Some error occured when sending the message")

\* C11 witness: a send_reliable to a registered identifier, failed by the transport
KnownRecipientGetsOneUnitWitness ==
    /\ last.kind = "send_reliable"
    /\ contains_left(last.reg, last.id)
    /\ Len(txLog) = 1
    /\ ~txLog[1].ok
    /\ ~ret.ok

\* C12: broadcast and broadcast_reliable build one outbound unit per registry
\* entry and none for another handle, all of the reliability class of the call,
\* and submit them in one batch; with an empty registry they submit nothing;
\* they return success
BroadcastIsOneBatch ==
    IsBroadcast(last) =>
        /\ ret = Ok
        /\ last.reg = {} => txLog = <<>>
        /\ last.reg # {} =>
              /\ Len(txLog) = 1
              /\ txLog[1].op = "send_messages"
              /\ Len(txLog[1].units) = Cardinality(last.reg)
              /\ {txLog[1].units[i].conn : i \in Indices(txLog[1].units)} = Rights(last.reg)
              /\ \A i \in Indices(txLog[1].units) :
                    /\ txLog[1].units[i].flags = FlagsOf(last.kind)
                    /\ txLog[1].units[i].payload = last.data

\* C12 witness: a broadcast_reliable with two registry entries
BroadcastIsOneBatchWitness ==
    /\ last.kind = "broadcast_reliable"
    /\ Cardinality(last.reg) = 2
    /\ Len(txLog) = 1
    /\ Len(txLog[1].units) = 2

\* the lifecycle callback invocations an item added
ChangedCallsOf(item) ==
    Cardinality({k \in Indices(cbLog) : k > item.cbLen /\ cbLog[k].cb = "changed"})

\* C13 as claimed: the second delivery of an event that has been handled
\* changes the registry no further and invokes the lifecycle callback no further
ReplayDoesNothing ==
    IsReplay => (active_connetions = last.reg /\ ChangedCallsOf(last) = 0)

\* C13 amended: the second delivery of an event, right after the first was
\* handled, changes the registry no further; it invokes no callback and gives no
\* transport instruction when the pair is an ignored one, and invokes the
\* lifecycle callback once more, when one is registered, for a connect request,
\* a Connected and a closing event
ReplayKeepsRegistry ==
    IsReplay =>
        /\ active_connetions = last.reg
        /\ ArmOf(last) = "ignored" => (Len(cbLog) = last.cbLen /\ Len(txLog) = last.txLen)
        /\ ArmOf(last) # "ignored" =>
              ChangedCallsOf(last) =
                  (IF callbacks.on_connection_changed_callback = NoHandler THEN 0 ELSE 1)

\* C13 witness: a Connected event was delivered twice, the registry holds its
\* entry, and the registered lifecycle handler was invoked both times
ReplayKeepsRegistryWitness ==
    /\ IsReplay
    /\ ArmOf(last) = "connected"
    /\ <<last.id, last.conn>> \in active_connetions
    /\ ChangedCallsOf(last) = 1
    /\ ChangedCallsOf(handled[Len(handled) - 1]) = 2

Slots == {"on_connect_requested_callback", "on_connection_changed_callback", "on_message_callback"}
SlotOf(call) ==
    CASE call.cb = "policy" -> "on_connect_requested_callback"
      [] call.cb = "changed" -> "on_connection_changed_callback"
      [] OTHER -> "on_message_callback"

\* C14: a slot holds one handler: a registration puts the new handler in its
\* slot and leaves the two other slots alone, and every callback invocation is
\* one of the handler the slot holds, never of one that was replaced
SlotHoldsLastRegistered ==
    /\ last.kind = "register" =>
          /\ callbacks[last.old] = last.new
          /\ \A slot \in Slots \ {last.old} : callbacks[slot] = last.cbs[slot]
    /\ \A i \in Indices(cbLog) : cbLog[i].h = callbacks[SlotOf(cbLog[i])]

\* C14 witness: a handler has been registered over another handler of the slot
SlotHoldsLastRegisteredWitness ==
    /\ last.kind = "register"
    /\ last.cbs[last.old] \in Handlers
    /\ last.cbs[last.old] # last.new
    /\ callbacks[last.old] = last.new

\* the events and the messages handled so far, as the transport queued them
EventsHandled ==
    LET evs == SelectSeq(handled, IsEvent)
    IN  [i \in 1..Len(evs) |-> Event(evs[i].conn, evs[i].old, evs[i].new, conns[evs[i].conn].info)]
MessagesHandled ==
    LET ms == SelectSeq(handled, IsMessage)
    IN  [i \in 1..Len(ms) |-> [conn |-> ms[i].conn, payload |-> ms[i].data]]

\* C15: a process call handles at most N events and at most N messages, in
\* queue order, and what it does not handle stays queued, in order
PollIsBounded ==
    /\ Count(handled, IsEvent) <= N
    /\ Count(handled, IsMessage) <= N
    /\ (pc # "idle" \/ Returned) =>
          /\ atPoll.events = EventsHandled \o evq
          /\ atPoll.messages = MessagesHandled \o msgq

\* C15 witness: process has returned after N events, with an event left queued
PollIsBoundedWitness ==
    /\ Returned
    /\ Count(handled, IsEvent) = N
    /\ evq # <<>>
    /\ Len(atPoll.events) > N

\* C16: a connect request invokes the lifecycle callback with (X, Connecting)
\* before the policy, then gives the transport one instruction for the handle,
\* accept when the policy said true and close (reason 0, no linger) when it
\* said false, and leaves the registry as it was
ConnectRequestSteps ==
    (last.kind = "event" /\ ArmOf(last) = "connect_request") =>
        LET answer == PolicyAnswer(callbacks.on_connect_requested_callback, last.id)
            notify == IF callbacks.on_connection_changed_callback = NoHandler THEN <<>>
                      ELSE <<CbCall("changed", callbacks.on_connection_changed_callback,
                                    last.id, "Connecting", 0, last.conn)>>
        IN  /\ active_connetions = last.reg
            /\ Len(CallsOf(last)) = Len(notify) + 1
            /\ \A i \in Indices(notify) :
                  CallsOf(last)[i].cb = "changed" /\ CallsOf(last)[i] = notify[i]
            /\ CallsOf(last)[Len(notify) + 1].cb = "policy"
            /\ CallsOf(last)[Len(notify) + 1] =
                  CbCall("policy", callbacks.on_connect_requested_callback,
                         last.id, answer, 0, last.conn)
            /\ Len(InstructionsOf(last)) = 1
            /\ InstructionsOf(last)[1].conn = last.conn
            /\ answer => InstructionsOf(last)[1].op = "accept"
            /\ ~answer => InstructionsOf(last)[1] =
                              TxClose(last.conn, 0, "You are not allowed to connect", FALSE)

\* C16 witness: a connect request was refused with a lifecycle handler registered
ConnectRequestStepsWitness ==
    /\ last.kind = "event"
    /\ ArmOf(last) = "connect_request"
    /\ callbacks.on_connection_changed_callback # NoHandler
    /\ Len(CallsOf(last)) = 2
    /\ InstructionsOf(last)[1].op = "close"

\* C17: a closing event leaves no entry for its identifier X and changes no
\* other entry, invokes the lifecycle callback once with (X, Disconnected)
\* whether or not there was an entry, and gives the transport no instruction
ClosingEventSteps ==
    (last.kind = "event" /\ ArmOf(last) = "disconnected") =>
        /\ ~contains_left(active_connetions, last.id)
        /\ active_connetions = {p \in last.reg : p[1] # last.id}
        /\ callbacks.on_connection_changed_callback # NoHandler =>
              CallsOf(last) = <<CbCall("changed", callbacks.on_connection_changed_callback,
                                       last.id, "Disconnected", 0, last.conn)>>
        /\ callbacks.on_connection_changed_callback = NoHandler => CallsOf(last) = <<>>
        /\ InstructionsOf(last) = <<>>

\* C17 witness: a closing event removed the entry of its identifier and the
\* registered lifecycle handler was invoked
ClosingEventStepsWitness ==
    /\ last.kind = "event"
    /\ ArmOf(last) = "disconnected"
    /\ contains_left(last.reg, last.id)
    /\ Len(CallsOf(last)) = 1

\* C18: every pair outside the transition table is matched by the catch-all
\* arm, and an event of such a pair changes no entry, invokes no callback,
\* gives the transport no instruction and yields success
IgnoredPairDoesNothing ==
    /\ \A old, new \in TransportStates :
          ArmOf([old |-> old, new |-> new]) = "ignored" => match_arm(old, new) = "ignored"
    /\ (last.kind = "event" /\ ArmOf(last) = "ignored") =>
          /\ active_connetions = last.reg
          /\ CallsOf(last) = <<>>
          /\ InstructionsOf(last) = <<>>
          /\ last.res = Ok

\* C18 witness: an ignored pair was handled with a lifecycle handler
\* registered and an entry in the registry
IgnoredPairDoesNothingWitness ==
    /\ last.kind = "event"
    /\ ArmOf(last) = "ignored"
    /\ callbacks.on_connection_changed_callback # NoHandler
    /\ contains_left(last.reg, last.id)

\* C19 as claimed: no step outside process changes the registry or the
\* callback slots, and inside process only an event changes the registry
OnlyProcessMutates ==
    [][/\ (pc = "idle" /\ pc' = "idle") =>
              (active_connetions' = active_connetions /\ callbacks' = callbacks)
       /\ active_connetions' # active_connetions => (pc = "events" /\ last'.kind = "event")]_vars

\* C19 amended: the registry changes only inside process, by the handling of
\* an event and never by a message; the callback slots change only by a
\* register_on_* call outside process, and only the slot registered; send,
\* send_reliable, broadcast and broadcast_reliable change neither
OnlyEventsAndRegisterMutate ==
    [][/\ active_connetions' # active_connetions => (pc = "events" /\ last'.kind = "event")
       /\ callbacks' # callbacks =>
              /\ pc = "idle" /\ pc' = "idle"
              /\ last'.kind = "register"
              /\ \A slot \in Slots \ {last'.old} : callbacks'[slot] = callbacks[slot]
       /\ (IsSend(last') \/ IsBroadcast(last') \/ last'.kind = "message") =>
              (active_connetions' = active_connetions /\ callbacks' = callbacks)]_vars

\* C19 witness: between two cycles, with an entry in the registry, a
\* registration has changed a slot
OnlyEventsAndRegisterMutateWitness ==
    /\ last.kind = "register"
    /\ callbacks # last.cbs
    /\ active_connetions # {}
    /\ active_connetions = last.reg

\* C20: a closing event for the handle H removes no entry of another handle
CloseKeepsOtherHandles ==
    (last.kind = "event" /\ ArmOf(last) = "disconnected") =>
        \A p \in last.reg : p[2] # last.conn => p \in active_connetions

====
